---- MODULE Spec2Model ----
(***************************************************************************)
(* A model of beancount_balancechange/balance_change.py: the plugin        *)
(* balance_change(entries, options_map), which replays a ledger once and   *)
(* checks every `custom "balance_change"` directive against the change of  *)
(* an account's subtree balance since the directive's `since` date.        *)
(*                                                                         *)
(* Numbers are Decimal amounts counted in units of 0.001, so the literal   *)
(* 0.005 of the source is 5.  Strings that the code takes apart (account   *)
(* names) are sequences of symbols; ":" is the account separator.          *)
(***************************************************************************)
EXTENDS Integers, Sequences, FiniteSets, TLC

VARIABLES
    entries,         \* the argument `entries`: the directive objects, in input order
    pc,              \* "start" | "replay" | "returned" | "aborted"
    exc,             \* the exception that ended the call, or "none"
    i,               \* position of the `for entry in entries` loop (line 103)
    new_entries,     \* line 52: the output list (references into entries)
    check_errors,    \* line 53: the BalanceError list
    real_root,       \* line 62: the realization tree, node path -> inventory
    t1_amounts,      \* line 73: the snapshot store
    open_close_map,  \* line 86
    balance_amount,  \* locals of the assertion branch (lines 148-153)
    starting_amount,
    actual_change,
    diff_amount,
    run,             \* 1: the first call, 2: the call on the first call's output
    first_result     \* what the first call returned (set by Rerun)

vars == <<entries, pc, exc, i, new_entries, check_errors, real_root, t1_amounts,
          open_close_map, balance_amount, starting_amount, actual_change,
          diff_amount, run, first_result>>

----------------------------------------------------------------------------
(* Bounds of the input family. *)

\* Longest ledger body (the directives after the leading Open/Close block).
MaxBody == 3

\* The last day of the ledger; days are 1..MaxDate.
MaxDate == 2

----------------------------------------------------------------------------
(* Strings. *)

Sep == ":"

\* The characters \w of the regular expression that occur in the inputs.
WordChars == {"B", "a", "C", "F", "X"}

\* The root names the regular expression of line 35 lists.
Roots == {"Assets", "Liabilities", "Expenses", "Equity", "Income"}

Currencies == {"GBP", "BTC"}

IsPrefix(s, t) == Len(s) <= Len(t) /\ SubSeq(t, 1, Len(s)) = s

Min(a, b) == IF a <= b THEN a ELSE b

Abs(n) == IF n < 0 THEN -n ELSE n

\* Amounts: amount.Amount(number, currency).  The snapshot store's placeholder,
\* the string "NaN" (line 73), is the one value that is no Amount.
Amount(n, c) == [isAmount |-> TRUE, number |-> n, currency |-> c]

NaN == [isAmount |-> FALSE, number |-> 0, currency |-> "NaN"]

\* A local variable that has not been assigned yet.
Unbound == [isAmount |-> FALSE, number |-> 0, currency |-> "unbound"]

----------------------------------------------------------------------------
(* Directives. *)

Open(d, a, cs) == [kind |-> "Open", date |-> d, account |-> a, currencies |-> cs]

Close(d, a) == [kind |-> "Close", date |-> d, account |-> a]

Posting(a, n, c) == [account |-> a, number |-> n, currency |-> c]

Transaction(d, ps) == [kind |-> "Transaction", date |-> d, postings |-> ps]

\* custom "balance_change" <expression> <number> <currency>, with the metadata
\* map holding `since` and, once evaluated, what lines 154 and 157 store.
Custom(d, ty, expr, n, c, since) ==
    [kind |-> "Custom", date |-> d, type |-> ty,
     values |-> <<expr, Amount(n, c)>>,
     meta |-> [since |-> since, starting_amount |-> Unbound, diff_amount |-> Unbound]]

\* A test that looks at the directive's kind only, not at its type.
is_balance_change_entry_any_type(entry) == entry.kind = "Custom"

\* Lines 24-25.
is_balance_change_entry(entry) ==
    entry.kind = "Custom" /\ entry.type = "balance_change"

\* Lines 27-28.
get_expression_from_entry(entry) == entry.values[1]

\* Lines 30-31.
get_expected_amount_from_entry(entry) == entry.values[2]

\* The end of the longest run of \w characters of s that starts at position p
\* (p - 1 when there is none).
RECURSIVE WordEnd(_, _)
WordEnd(s, p) ==
    IF p <= Len(s) /\ s[p] \in WordChars THEN WordEnd(s, p + 1) ELSE p - 1

\* The end of the greedy (:\w+)* that starts after position p.
RECURSIVE GroupsEnd(_, _)
GroupsEnd(s, p) ==
    IF p + 2 <= Len(s) /\ s[p + 1] = Sep /\ s[p + 2] \in WordChars
    THEN GroupsEnd(s, WordEnd(s, p + 2))
    ELSE p

\* Lines 33-36: re.match('((Assets|...)(:\w+)+)', expression).group(0); the
\* inputs all start with a root name and one segment, so a match exists.
get_account_from_entry(entry) ==
    LET s == get_expression_from_entry(entry)
    IN  SubSeq(s, 1, GroupsEnd(s, 1))

----------------------------------------------------------------------------
(* beancount.core.account and beancount.core.realization, as the plugin    *)
(* uses them.                                                              *)

\* account.split(name): the components between the separators.
RECURSIVE split(_)
split(s) ==
    IF \A p \in 1..Len(s) : s[p] # Sep
    THEN <<s>>
    ELSE LET p == CHOOSE q \in 1..Len(s) :
                      s[q] = Sep /\ \A r \in 1..(q - 1) : s[r] # Sep
         IN  <<SubSeq(s, 1, p - 1)>> \o split(SubSeq(s, p + 1, Len(s)))

\* A matcher that forgets the descendants: the name itself only.
parent_matcher_exact(parent, name) == name = parent

\* account.parent_matcher(parent): re.compile(re.escape(parent) + '($|:)').match
parent_matcher(parent, name) ==
    /\ IsPrefix(parent, name)
    /\ (Len(name) = Len(parent) \/ name[Len(parent) + 1] = Sep)

\* What realization.get returns when a component is missing.
None == <<>>

\* An empty Inventory: no units of any currency.
EmptyInventory == [c \in Currencies |-> 0]

\* realization.get_or_create(real_root, name): the node and its missing
\* ancestors are created with empty balances.
get_or_create(tree, name) ==
    LET comps == split(name)
        paths == {SubSeq(comps, 1, k) : k \in 1..Len(comps)}
    IN  [p \in (DOMAIN tree) \cup paths |->
            IF p \in DOMAIN tree THEN tree[p] ELSE EmptyInventory]

\* realization.get(real_root, name): walks the components, None when one is
\* not there.
realization_get(tree, name) ==
    LET comps == split(name)
    IN  IF \A k \in 1..Len(comps) : SubSeq(comps, 1, k) \in DOMAIN tree
        THEN comps
        ELSE None

RECURSIVE SumInventories(_, _)
SumInventories(tree, nodes) ==
    IF nodes = {}
    THEN EmptyInventory
    ELSE LET n == CHOOSE m \in nodes : TRUE
             rest == SumInventories(tree, nodes \ {n})
         IN  [c \in Currencies |-> tree[n][c] + rest[c]]

\* The balance of the node alone, as with leaf_only=True.
compute_balance_leaf_only(tree, node) == tree[node]

\* realization.compute_balance(real_account, leaf_only=False): the node's own
\* balance plus the balance of every node below it.
compute_balance(tree, node) ==
    SumInventories(tree, {n \in DOMAIN tree : IsPrefix(node, n)})

\* Inventory.get_currency_units(currency)
get_currency_units(inventory, currency) == Amount(inventory[currency], currency)

\* Inventory.add_position(posting) on the node of the posting's account.
add_position(tree, node, posting) ==
    [tree EXCEPT ![node][posting.currency] = @ + posting.number]

\* amount.sub(amount1, amount2) reads amount2.number and compares the
\* currencies before it subtracts: what it raises, if anything.
sub_raises(amount1, amount2) ==
    IF ~amount1.isAmount \/ ~amount2.isAmount THEN "AttributeError"
    ELSE IF amount1.currency # amount2.currency THEN "ValueError"
    ELSE "none"

sub(amount1, amount2) ==
    Amount(amount1.number - amount2.number, amount1.currency)

----------------------------------------------------------------------------
(* beancount.core.getters *)

\* GetAccounts: the accounts a directive names (a Custom names none).
entry_accounts(entry) ==
    CASE entry.kind = "Transaction" ->
            {entry.postings[k].account : k \in DOMAIN entry.postings}
      [] entry.kind \in {"Open", "Close"} -> {entry.account}
      [] OTHER -> {}

get_accounts(es) == UNION {entry_accounts(es[k]) : k \in DOMAIN es}

NoDirective == [kind |-> "None"]

\* The defaultdict of the getter handed out as it is: a lookup of any account
\* a change assertion names succeeds, with (None, None) when the ledger has
\* neither an Open nor a Close for it.
get_account_open_close_defaultdict(es) ==
    LET named == {es[k].account : k \in {l \in DOMAIN es : es[l].kind \in {"Open", "Close"}}}
        asked == {get_account_from_entry(es[k]) :
                     k \in {l \in DOMAIN es : is_balance_change_entry(es[l])}}
    IN  [a \in named \cup asked |->
            [open |-> IF \E k \in DOMAIN es : es[k].kind = "Open" /\ es[k].account = a
                      THEN es[CHOOSE k \in DOMAIN es :
                                  es[k].kind = "Open" /\ es[k].account = a]
                      ELSE NoDirective,
             close |-> NoDirective]]

\* getters.get_account_open_close(entries): account -> (open, close), with an
\* entry for every account that has an Open or a Close; of duplicates the
\* earliest is kept.
RECURSIVE open_close_fold(_, _, _)
open_close_fold(es, k, m) ==
    IF k > Len(es) THEN m
    ELSE LET e == es[k]
         IN  IF e.kind \notin {"Open", "Close"}
             THEN open_close_fold(es, k + 1, m)
             ELSE LET cur == IF e.account \in DOMAIN m
                             THEN m[e.account]
                             ELSE [open |-> NoDirective, close |-> NoDirective]
                      prev == IF e.kind = "Open" THEN cur.open ELSE cur.close
                      keep == IF prev.kind # "None" /\ prev.date <= e.date
                              THEN prev ELSE e
                      new == IF e.kind = "Open"
                             THEN [cur EXCEPT !.open = keep]
                             ELSE [cur EXCEPT !.close = keep]
                  IN  open_close_fold(es, k + 1,
                          [a \in (DOMAIN m) \cup {e.account} |->
                              IF a = e.account THEN new ELSE m[a]])

get_account_open_close(es) == open_close_fold(es, 1, <<>>)

----------------------------------------------------------------------------
(* The input family: a leading block of Open/Close directives on day 1,    *)
(* then a date-sorted body of transactions and custom directives.         *)

BankA == <<"Assets", Sep, "B">>

Checking == <<"Assets", Sep, "B", Sep, "C">>

\* A sibling of BankA whose name has BankA's name as a string prefix.
BankAlpha == <<"Assets", Sep, "B", "a">>

Food == <<"Expenses", Sep, "F">>

\* An account that no Open, Close or posting of any ledger names.
Typo == <<"Assets", Sep, "X">>

Dates == 1..MaxDate

Heads ==
    { <<>>,
      <<Open(1, BankA, {})>>,
      <<Open(1, BankA, {"GBP"}), Open(1, Checking, {})>>,
      <<Open(1, Checking, {"GBP"})>>,
      <<Close(1, BankA)>> }

PostingLists ==
    { <<Posting(BankA, 5, "GBP")>>,
      <<Posting(Checking, -1, "GBP")>>,
      <<Posting(BankAlpha, 6, "GBP"), Posting(Food, -6, "GBP")>>,
      <<Posting(BankA, 6, "BTC")>> }

Transactions == {Transaction(d, ps) : d \in Dates, ps \in PostingLists}

\* Change assertions are dated on the last day; their windows start the day
\* before it, on it, or after it (a window no transaction reaches).
Assertions ==
    { Custom(MaxDate, "balance_change", BankA,    0, "GBP", MaxDate),
      Custom(MaxDate, "balance_change", BankA,    5, "GBP", MaxDate),
      Custom(MaxDate, "balance_change", BankA,   -1, "GBP", MaxDate - 1),
      Custom(MaxDate, "balance_change", BankA,    0, "GBP", MaxDate + 1),
      Custom(MaxDate, "balance_change", BankA,    0, "BTC", MaxDate),
      Custom(MaxDate, "balance_change", Checking, 0, "GBP", MaxDate),
      Custom(MaxDate, "balance_change", Checking, 5, "BTC", MaxDate - 1),
      Custom(MaxDate, "balance_change", Typo,     0, "GBP", MaxDate) }

\* A custom directive of another type, which the plugin passes through.
Others == {Custom(MaxDate, "budget", Food, 5, "GBP", MaxDate)}

Universe == Transactions \cup Assertions \cup Others

IsDateSorted(es) == \A k \in 1..(Len(es) - 1) : es[k].date <= es[k + 1].date

Bodies ==
    {b \in UNION {[1..n -> Universe] : n \in 0..MaxBody} : IsDateSorted(b)}

Ledgers == {h \o b : h \in Heads, b \in Bodies}

----------------------------------------------------------------------------
(* Lines 52-86: what balance_change builds before the replay. *)

\* Lines 66-68.
balance_change_assertions(es) == SelectSeq(es, is_balance_change_entry)

\* Line 70.
t1_dates(es) ==
    LET as == balance_change_assertions(es)
    IN  [k \in 1..Len(as) |-> as[k].meta.since]

\* Line 71.
asserted_accounts(es) ==
    LET as == balance_change_assertions(es)
    IN  {get_account_from_entry(as[k]) : k \in 1..Len(as)}

\* Line 72.
asserted_currencies(es) ==
    LET as == balance_change_assertions(es)
    IN  {get_expected_amount_from_entry(as[k]).currency : k \in 1..Len(as)}

\* The orders in which iterating a Python set of strings can yield its
\* elements (the order follows the strings' hashes, which differ from run to
\* run).
IterationOrders(S) ==
    {f \in [1..Cardinality(S) -> S] : \A x \in S : \E k \in DOMAIN f : f[k] = x}

\* Line 73: zip stops with the shortest of its three arguments, and the dict
\* keeps one entry per distinct key.
zip_t1_amounts(accounts, dates, currencies) ==
    LET n == Min(Len(accounts), Min(Len(dates), Len(currencies)))
        keys == {<<accounts[k], dates[k], currencies[k]>> : k \in 1..n}
    IN  [key \in keys |-> NaN]

\* Lines 78-83: a node for every ledger account that is an asserted account or
\* below one.
RECURSIVE create_all(_, _)
create_all(tree, names) ==
    IF names = {} THEN tree
    ELSE LET a == CHOOSE b \in names : TRUE
         IN  create_all(get_or_create(tree, a), names \ {a})

tracked_accounts(es) ==
    {a \in get_accounts(es) :
        \/ a \in asserted_accounts(es)
        \/ \E p \in asserted_accounts(es) : parent_matcher(p, a)}

initial_real_root(es) == create_all(<<>>, tracked_accounts(es))

----------------------------------------------------------------------------
(* Errors.  A message is its fixed phrase and the values formatted into it. *)

Message(text, account, currency, expected, actual, difference, direction) ==
    [text |-> text, account |-> account, currency |-> currency,
     expected |-> expected, actual |-> actual, difference |-> difference,
     direction |-> direction]

\* Lines 127-128.
UnknownAccountMessage(account) ==
    Message("Invalid reference to unknown account", account, "", 0, 0, 0, "")

\* Lines 136-137.
InvalidCurrencyMessage(currency) ==
    Message("Invalid currency for Balance directive", <<>>, currency, 0, 0, 0, "")

\* The literal 0.005 of line 156, in units of 0.001.
Tolerance == 5

\* A comparison that also rejects a difference of exactly the tolerance.
exceeds_tolerance_inclusive(diff) == Abs(diff.number) >= Tolerance

\* Line 156.
exceeds_tolerance(diff) == Abs(diff.number) > Tolerance

\* Lines 164-166.
direction(diff) == IF diff.number > 0 THEN "too much" ELSE "too little"

\* Lines 160-166.
ChangeMismatchMessage(account, expected, actual, diff) ==
    Message("Balance change check failed", account, expected.currency,
            expected.number, actual.number, Abs(diff.number), direction(diff))

\* BalanceError(source, message, entry) of line 21; source is entry.meta, the
\* metadata of the directive that entry refers to.
BalanceError(message, entry) == [message |-> message, entry |-> entry]

----------------------------------------------------------------------------
(* The call. *)

Init ==
    /\ entries \in Ledgers
    /\ pc = "start"
    /\ exc = "none"
    /\ i = 1
    /\ new_entries = <<>>
    /\ check_errors = <<>>
    /\ real_root = <<>>
    /\ t1_amounts = <<>>
    /\ open_close_map = <<>>
    /\ balance_amount = Unbound
    /\ starting_amount = Unbound
    /\ actual_change = Unbound
    /\ diff_amount = Unbound
    /\ run = 1
    /\ first_result = [new_entries |-> <<>>, check_errors |-> <<>>]

\* Lines 52-86.  The snapshot keys depend on the order in which the two sets
\* of line 71 and 72 are iterated.
Setup ==
    /\ pc = "start"
    /\ \E accounts \in IterationOrders(asserted_accounts(entries)),
          currencies \in IterationOrders(asserted_currencies(entries)) :
          t1_amounts' = zip_t1_amounts(accounts, t1_dates(entries), currencies)
    /\ real_root' = initial_real_root(entries)
    /\ open_close_map' = get_account_open_close(entries)
    /\ new_entries' = <<>>
    /\ check_errors' = <<>>
    /\ i' = 1
    /\ pc' = "replay"
    /\ UNCHANGED <<entries, exc, balance_amount, starting_amount, actual_change,
                   diff_amount, run, first_result>>

\* A window that opens only after its since-date.
entries_to_sum_strict(entry, amounts) ==
    {k \in DOMAIN amounts : ~amounts[k].isAmount /\ entry.date > k[2]}

\* A selection that forgets which snapshots are already taken.
entries_to_sum_again(entry, amounts) ==
    {k \in DOMAIN amounts : entry.date >= k[2]}

\* Line 89: the snapshots still to take on or before the entry's date.
entries_to_sum(entry, amounts) ==
    {k \in DOMAIN amounts : ~amounts[k].isAmount /\ entry.date >= k[2]}

\* Lines 88-100, when no assertion of line 95 fails.
update_t1_amounts(entry, amounts, tree) ==
    [k \in DOMAIN amounts |->
        IF k \in entries_to_sum(entry, amounts)
        THEN get_currency_units(
                 compute_balance(tree, realization_get(tree, k[1])), k[3])
        ELSE amounts[k]]

\* Lines 109-116: the postings to tracked accounts, in order.
RECURSIVE add_postings(_, _, _)
add_postings(tree, postings, k) ==
    IF k > Len(postings) THEN tree
    ELSE LET real_account == realization_get(tree, postings[k].account)
         IN  add_postings(IF real_account # None
                          THEN add_position(tree, real_account, postings[k])
                          ELSE tree,
                          postings, k + 1)

\* Lines 104-116 and 178.  The assertion of line 95 ends the call when a
\* snapshot is due for an account that has no node.
ProcessTransaction ==
    /\ pc = "replay"
    /\ i <= Len(entries)
    /\ entries[i].kind = "Transaction"
    /\ LET entry == entries[i]
       IN  IF \E k \in entries_to_sum(entry, t1_amounts) :
                  realization_get(real_root, k[1]) = None
           THEN /\ pc' = "aborted"
                /\ exc' = "AssertionError"
                /\ UNCHANGED <<i, new_entries, real_root, t1_amounts>>
           ELSE /\ t1_amounts' = update_t1_amounts(entry, t1_amounts, real_root)
                /\ real_root' = add_postings(real_root, entry.postings, 1)
                /\ new_entries' = Append(new_entries, i)
                /\ i' = i + 1
                /\ UNCHANGED <<pc, exc>>
    /\ UNCHANGED <<entries, check_errors, open_close_map, balance_amount,
                   starting_amount, actual_change, diff_amount, run, first_result>>

\* A currency check with its membership test inverted.
currency_checked_inverted(errors, entry, open, expected_change) ==
    IF /\ open.kind # "None"
       /\ open.currencies # {}
       /\ expected_change.currency \in open.currencies
    THEN Append(errors,
                BalanceError([text |-> "Invalid currency for Balance directive",
                              account |-> <<>>,
                              currency |-> expected_change.currency,
                              expected |-> 0, actual |-> 0, difference |-> 0,
                              direction |-> ""], entry))
    ELSE errors

\* Lines 131-138: the errors after the currency check.
currency_checked(errors, entry, open, expected_change) ==
    IF /\ open.kind # "None"
       /\ open.currencies # {}
       /\ expected_change.currency \notin open.currencies
    THEN Append(errors,
                BalanceError(InvalidCurrencyMessage(expected_change.currency), entry))
    ELSE errors

\* A change check that puts its error at the head of the list.
change_checked_prepending(errors, entry, account, expected_change, actual, diff) ==
    IF Abs(diff.number) > Tolerance
    THEN <<[message |-> [text |-> "Balance change check failed",
                         account |-> account,
                         currency |-> expected_change.currency,
                         expected |-> expected_change.number,
                         actual |-> actual.number,
                         difference |-> Abs(diff.number),
                         direction |-> IF diff.number > 0
                                       THEN "too much" ELSE "too little"],
            entry |-> entry]>> \o errors
    ELSE errors

\* Lines 156-167: the errors after the change check.
change_checked(errors, entry, account, expected_change, actual, diff) ==
    IF exceeds_tolerance(diff)
    THEN Append(errors,
                BalanceError(ChangeMismatchMessage(account, expected_change,
                                                   actual, diff), entry))
    ELSE errors

\* Storing the difference on the directive whether or not it is within the
\* tolerance.
with_meta_always_diff(entry, starting, diff) ==
    [entry EXCEPT !.meta.starting_amount = starting, !.meta.diff_amount = diff]

\* Lines 154-157: what the two assignments into entry.meta leave in the
\* directive.
with_meta(entry, starting, diff) ==
    [entry EXCEPT !.meta.starting_amount = starting,
                  !.meta.diff_amount = IF exceeds_tolerance(diff) THEN diff ELSE @]

\* Lines 118-178 for one change assertion.
ProcessBalanceChange ==
    /\ pc = "replay"
    /\ i <= Len(entries)
    /\ is_balance_change_entry(entries[i])
    /\ LET entry == entries[i]
           expected_change == get_expected_amount_from_entry(entry)
           account == get_account_from_entry(entry)
       IN  IF account \notin DOMAIN open_close_map
           THEN \* lines 124-129: the KeyError is caught, and `continue` goes
                \* to the next entry past the append of line 178
                /\ check_errors' =
                       Append(check_errors,
                              BalanceError(UnknownAccountMessage(account), i))
                /\ i' = i + 1
                /\ UNCHANGED <<entries, pc, exc, new_entries, balance_amount,
                               starting_amount, actual_change, diff_amount>>
           ELSE LET open == open_close_map[account].open
                    errors == currency_checked(check_errors, i, open, expected_change)
                    real_account == realization_get(real_root, account)
                    key == <<account, entry.meta.since, expected_change.currency>>
                IN  IF real_account = None
                    THEN \* line 144
                         /\ pc' = "aborted"
                         /\ exc' = "AssertionError"
                         /\ check_errors' = errors
                         /\ UNCHANGED <<entries, i, new_entries, balance_amount,
                                        starting_amount, actual_change, diff_amount>>
                    ELSE LET balance == get_currency_units(
                                 compute_balance(real_root, real_account),
                                 expected_change.currency)
                         IN  IF key \notin DOMAIN t1_amounts
                             THEN \* line 149
                                  /\ pc' = "aborted"
                                  /\ exc' = "KeyError"
                                  /\ check_errors' = errors
                                  /\ balance_amount' = balance
                                  /\ UNCHANGED <<entries, i, new_entries,
                                                 starting_amount, actual_change,
                                                 diff_amount>>
                             ELSE IF sub_raises(balance, t1_amounts[key]) # "none"
                             THEN \* line 152
                                  /\ pc' = "aborted"
                                  /\ exc' = sub_raises(balance, t1_amounts[key])
                                  /\ check_errors' = errors
                                  /\ balance_amount' = balance
                                  /\ starting_amount' = t1_amounts[key]
                                  /\ UNCHANGED <<entries, i, new_entries,
                                                 actual_change, diff_amount>>
                             ELSE LET starting == t1_amounts[key]
                                      actual == sub(balance, starting)
                                      diff == sub(actual, expected_change)
                                  IN  /\ balance_amount' = balance
                                      /\ starting_amount' = starting
                                      /\ actual_change' = actual
                                      /\ diff_amount' = diff
                                      /\ entries' =
                                           [entries EXCEPT
                                              ![i] = with_meta(@, starting, diff)]
                                      /\ check_errors' =
                                           change_checked(errors, i, account,
                                               expected_change, actual, diff)
                                      /\ new_entries' = Append(new_entries, i)
                                      /\ i' = i + 1
                                      /\ UNCHANGED <<pc, exc>>
    /\ UNCHANGED <<real_root, t1_amounts, open_close_map, run, first_result>>

\* Line 178 for a directive that is neither a transaction nor a change
\* assertion.
ProcessOther ==
    /\ pc = "replay"
    /\ i <= Len(entries)
    /\ entries[i].kind # "Transaction"
    /\ ~is_balance_change_entry(entries[i])
    /\ new_entries' = Append(new_entries, i)
    /\ i' = i + 1
    /\ UNCHANGED <<entries, pc, exc, check_errors, real_root, t1_amounts,
                   open_close_map, balance_amount, starting_amount,
                   actual_change, diff_amount, run, first_result>>

\* Line 180.
Return ==
    /\ pc = "replay"
    /\ i > Len(entries)
    /\ pc' = "returned"
    /\ UNCHANGED <<entries, exc, i, new_entries, check_errors, real_root,
                   t1_amounts, open_close_map, balance_amount, starting_amount,
                   actual_change, diff_amount, run, first_result>>

Next ==
    \/ Setup
    \/ ProcessTransaction
    \/ ProcessBalanceChange
    \/ ProcessOther
    \/ Return

Spec == Init /\ [][Next]_vars

\* A caller that hands the directives the first call returned to a second
\* call.  The second call's entries are the same objects, with the metadata
\* the first call stored in them.
Rerun ==
    /\ pc = "returned"
    /\ run = 1
    /\ run' = 2
    /\ first_result' = [new_entries |-> new_entries, check_errors |-> check_errors]
    /\ entries' = [k \in 1..Len(new_entries) |-> entries[new_entries[k]]]
    /\ pc' = "start"
    /\ i' = 1
    /\ new_entries' = <<>>
    /\ check_errors' = <<>>
    /\ real_root' = <<>>
    /\ t1_amounts' = <<>>
    /\ open_close_map' = <<>>
    /\ balance_amount' = Unbound
    /\ starting_amount' = Unbound
    /\ actual_change' = Unbound
    /\ diff_amount' = Unbound
    /\ UNCHANGED exc

NextRerun ==
    \/ Next
    \/ Rerun

SpecRerun == Init /\ [][NextRerun]_vars

----------------------------------------------------------------------------
(* What the properties below speak about. *)

\* The errors recorded for the directive at position j, in order.
ErrorsOf(j) == SelectSeq(check_errors, LAMBDA e : e.entry = j)

MismatchesOf(j) ==
    SelectSeq(ErrorsOf(j), LAMBDA e : e.message.text = "Balance change check failed")

\* The ledger has an Open directive for the account.
HasOpen(account) ==
    \E k \in DOMAIN entries : entries[k].kind = "Open" /\ entries[k].account = account

HasClose(account) ==
    \E k \in DOMAIN entries : entries[k].kind = "Close" /\ entries[k].account = account

\* name is account or, segment by segment, below it.
InSubtree(account, name) == IsPrefix(split(account), split(name))

RECURSIVE PostingSum(_, _, _, _)
PostingSum(postings, k, account, currency) ==
    IF k > Len(postings) THEN 0
    ELSE (IF InSubtree(account, postings[k].account) /\ postings[k].currency = currency
          THEN postings[k].number ELSE 0)
         + PostingSum(postings, k + 1, account, currency)

\* The units of currency posted to account's subtree by the transactions
\* before position j that are dated since or later.
RECURSIVE WindowSum(_, _, _, _)
WindowSum(j, account, currency, since) ==
    IF j <= 1 THEN 0
    ELSE (IF entries[j - 1].kind = "Transaction" /\ entries[j - 1].date >= since
          THEN PostingSum(entries[j - 1].postings, 1, account, currency) ELSE 0)
         + WindowSum(j - 1, account, currency, since)

TransactionInWindow(j, since) ==
    \E k \in 1..(j - 1) : entries[k].kind = "Transaction" /\ entries[k].date >= since

\* The directive before the loop position is a change assertion whose
\* evaluation ran to the end of the loop body (its account was in the
\* open/close map, and the loop has moved past it), and nothing has run
\* since: the locals are those of its evaluation.
Evaluated(j) ==
    /\ j = i - 1
    /\ j >= 1
    /\ pc \in {"replay", "returned"}
    /\ is_balance_change_entry(entries[j])
    /\ get_account_from_entry(entries[j]) \in DOMAIN open_close_map

EvaluatedOpened(j) ==
    Evaluated(j) /\ HasOpen(get_account_from_entry(entries[j]))

Expected(j) == get_expected_amount_from_entry(entries[j])

----------------------------------------------------------------------------
(* C1 *)

\* C1 (as claimed): the returned output holds exactly the input directives,
\* in input order; none is deleted, added or moved, not even a change
\* assertion that records an error.
C1_OutputIsInput ==
    pc = "returned" => new_entries = [k \in 1..Len(entries) |-> k]

----------------------------------------------------------------------------
(* C2 *)

\* C2 (as claimed): a change assertion that names an account without an Open
\* directive only adds an error record; the call never ends in the
\* "Missing <account>" assertion failure.
C2_NoMissingAbort == ~(pc = "aborted" /\ exc = "AssertionError")

----------------------------------------------------------------------------
(* C3 *)

\* C3: when a change assertion on an opened account has been evaluated and a
\* transaction dated on or after its since-date came before it, the actual
\* change it computed is the sum of the postings in its currency to the
\* account's subtree in the transactions dated on or after the since-date
\* before it; and if the expected amount is that sum, no mismatch is recorded.
C3_ChangeIsWindowSum ==
    \A j \in DOMAIN entries :
        (EvaluatedOpened(j) /\ TransactionInWindow(j, entries[j].meta.since)) =>
            LET sum == WindowSum(j, get_account_from_entry(entries[j]),
                                 Expected(j).currency, entries[j].meta.since)
            IN  /\ actual_change = Amount(sum, Expected(j).currency)
                /\ (Expected(j).number = sum => MismatchesOf(j) = <<>>)

\* C3's case: the subtree held a balance before the window, a transaction in
\* the window posted to it, and the assertion expecting the posted amount
\* passed.
C3_Witness ==
    \E j \in DOMAIN entries :
        /\ EvaluatedOpened(j)
        /\ TransactionInWindow(j, entries[j].meta.since)
        /\ starting_amount.isAmount
        /\ starting_amount.number # 0
        /\ WindowSum(j, get_account_from_entry(entries[j]), Expected(j).currency,
                     entries[j].meta.since) # 0
        /\ Expected(j).number = actual_change.number
        /\ ErrorsOf(j) = <<>>

----------------------------------------------------------------------------
(* C4 *)

\* C4: the balance a change assertion on an opened account uses is the sum of
\* the postings, in its currency, to the account itself and to the accounts
\* below it segment by segment, of the transactions before it; postings to
\* any other account (a sibling whose name only starts with the account's
\* name, an untracked account) add nothing.
C4_SubtreeBalance ==
    \A j \in DOMAIN entries :
        EvaluatedOpened(j) =>
            balance_amount =
                Amount(WindowSum(j, get_account_from_entry(entries[j]),
                                 Expected(j).currency, entries[1].date),
                       Expected(j).currency)

\* C4's case: an assertion on the parent for exactly what was posted to its
\* child passes, while a transaction that posted to the sibling and to an
\* untracked account came before it as well.
C4_Witness ==
    \E j \in DOMAIN entries :
        /\ EvaluatedOpened(j)
        /\ get_account_from_entry(entries[j]) = BankA
        /\ \E k \in 1..(j - 1) :
              /\ entries[k].kind = "Transaction"
              /\ entries[k].date >= entries[j].meta.since
              /\ entries[k].postings[1].account = Checking
        /\ \E k \in 1..(j - 1) :
              /\ entries[k].kind = "Transaction"
              /\ entries[k].postings[1].account = BankAlpha
        /\ actual_change.number = -1
        /\ Expected(j).number = -1
        /\ ErrorsOf(j) = <<>>

----------------------------------------------------------------------------
(* C5 *)

\* C5: an evaluated change assertion on an opened account records exactly one
\* "Balance change check failed" error when the actual change differs from
\* the expected one by more than 0.005, whatever the currency, and none
\* otherwise (a difference of exactly 0.005 passes); the error says "too
\* much" for a positive difference and "too little" for a negative one.
C5_Tolerance ==
    \A j \in DOMAIN entries :
        EvaluatedOpened(j) =>
            LET d == actual_change.number - Expected(j).number
            IN  IF Abs(d) > Tolerance
                THEN /\ Len(MismatchesOf(j)) = 1
                     /\ MismatchesOf(j)[1].message.difference = Abs(d)
                     /\ MismatchesOf(j)[1].message.direction =
                            (IF d > 0 THEN "too much" ELSE "too little")
                ELSE MismatchesOf(j) = <<>>

\* C5's case: a difference of exactly the tolerance, which passes.
C5_Witness ==
    \E j \in DOMAIN entries :
        /\ EvaluatedOpened(j)
        /\ Abs(actual_change.number - Expected(j).number) = Tolerance
        /\ ErrorsOf(j) = <<>>

----------------------------------------------------------------------------
(* C6 *)

UnknownAccountError(j) ==
    BalanceError(UnknownAccountMessage(get_account_from_entry(entries[j])), j)

----------------------------------------------------------------------------
(* C7 *)

\* The account's Open directive lists currencies, and not the assertion's.
CurrencyNotAllowed(j) ==
    \E k \in DOMAIN entries :
        /\ entries[k].kind = "Open"
        /\ entries[k].account = get_account_from_entry(entries[j])
        /\ entries[k].currencies # {}
        /\ Expected(j).currency \notin entries[k].currencies

InvalidCurrencyError(j) ==
    BalanceError(InvalidCurrencyMessage(Expected(j).currency), j)

\* C7: an evaluated change assertion in a currency its account's Open
\* directive does not list has the invalid-currency error, and the change
\* check ran all the same, in the assertion's currency: the starting amount
\* was stored on the directive, and when the change is off by more than the
\* tolerance the assertion has exactly two errors, the invalid-currency error
\* and right after it the mismatch.
C7_CurrencyErrorDoesNotHalt ==
    \A j \in DOMAIN entries :
        (Evaluated(j) /\ CurrencyNotAllowed(j)) =>
            /\ balance_amount.currency = Expected(j).currency
            /\ entries[j].meta.starting_amount = starting_amount
            /\ starting_amount.isAmount
            /\ IF Abs(actual_change.number - Expected(j).number) > Tolerance
               THEN /\ Len(ErrorsOf(j)) = 2
                    /\ ErrorsOf(j)[1] = InvalidCurrencyError(j)
                    /\ ErrorsOf(j)[2].message.text = "Balance change check failed"
                    /\ \E n \in 1..(Len(check_errors) - 1) :
                          /\ check_errors[n] = ErrorsOf(j)[1]
                          /\ check_errors[n + 1] = ErrorsOf(j)[2]
               ELSE ErrorsOf(j) = <<InvalidCurrencyError(j)>>

\* C7's case: both errors on one assertion.
C7_Witness ==
    \E j \in DOMAIN entries :
        /\ Evaluated(j)
        /\ CurrencyNotAllowed(j)
        /\ Len(ErrorsOf(j)) = 2
        /\ ErrorsOf(j)[2].message.text = "Balance change check failed"

----------------------------------------------------------------------------
(* C8 *)

SnapshotKey(j) ==
    <<get_account_from_entry(entries[j]), entries[j].meta.since, Expected(j).currency>>

\* C8 (as claimed): a change assertion on an opened account that expects a
\* change of 0, whose snapshot is still the placeholder because no
\* transaction before it is dated on or after its since-date, does not end
\* the call and records no error.
C8_UnresolvedExpectingZeroPasses ==
    \A j \in DOMAIN entries :
        (/\ is_balance_change_entry(entries[j])
         /\ HasOpen(get_account_from_entry(entries[j]))
         /\ Expected(j).number = 0
         /\ ~TransactionInWindow(j, entries[j].meta.since)
         /\ SnapshotKey(j) \in DOMAIN t1_amounts
         /\ t1_amounts[SnapshotKey(j)] = NaN) =>
            /\ ~(pc = "aborted" /\ i = j)
            /\ (i > j => ErrorsOf(j) = <<>>)

----------------------------------------------------------------------------
(* C9 *)

\* C9 (as claimed): when the replay starts, the snapshot store holds an
\* unresolved entry for the (account, since-date, currency) triple of every
\* change assertion; so no assertion's lookup fails.
C9_EveryTripleHasSlot ==
    /\ (pc = "replay" /\ i = 1) =>
          /\ \A j \in DOMAIN entries :
                is_balance_change_entry(entries[j]) =>
                    SnapshotKey(j) \in DOMAIN t1_amounts
          /\ \A key \in DOMAIN t1_amounts : t1_amounts[key] = NaN
    /\ exc # "KeyError"

----------------------------------------------------------------------------
(* C10 *)

Range(f) == {f[k] : k \in DOMAIN f}

\* C10 (as claimed): a second call on the output of the first returns the
\* same set of errors (the same messages about the same directives).
C10_SameErrorsOnRerun ==
    /\ (run = 2 /\ pc = "returned") =>
          {[message |-> e.message, entry |-> first_result.new_entries[e.entry]] :
              e \in Range(check_errors)}
          = Range(first_result.check_errors)
    /\ (run = 2 => pc # "aborted")

----------------------------------------------------------------------------
(* C11 *)

\* The ledger holds no custom directive of type "balance_change".
NoChangeAssertion ==
    \A k \in DOMAIN entries :
        ~(entries[k].kind = "Custom" /\ entries[k].type = "balance_change")

\* C11: on a ledger without a change assertion the call never ends in an
\* exception and never records an error, every directive the loop has passed
\* is in the output at its input position, and the call returns the whole
\* input in input order with an empty error list.
C11_NoAssertionIsIdentity ==
    NoChangeAssertion =>
        /\ pc # "aborted"
        /\ check_errors = <<>>
        /\ (pc = "replay" => new_entries = [k \in 1..(i - 1) |-> k])
        /\ (pc = "returned" => new_entries = [k \in 1..Len(entries) |-> k])

\* C11's case: a returned call on a ledger with an Open, a transaction and a
\* custom directive of another type, and no change assertion.
C11_Witness ==
    /\ NoChangeAssertion
    /\ pc = "returned"
    /\ \E k \in DOMAIN entries : entries[k].kind = "Open"
    /\ \E k \in DOMAIN entries : entries[k].kind = "Transaction"
    /\ \E k \in DOMAIN entries : entries[k].kind = "Custom"
    /\ Len(new_entries) = Len(entries)

----------------------------------------------------------------------------
(* C12 *)

----------------------------------------------------------------------------
(* C13 *)

\* The transactions the loop has passed that are dated since or later.
DueTransactions(since) ==
    {k \in 1..(i - 1) : entries[k].kind = "Transaction" /\ entries[k].date >= since}

First(S) == CHOOSE k \in S : \A l \in S : k <= l

\* The units of currency in account's subtree before the directive at
\* position j is processed.
BalanceBefore(j, account, currency) ==
    Amount(WindowSum(j, account, currency, 0), currency)

----------------------------------------------------------------------------
(* C14 *)

\* The units of currency posted to account's subtree by the transactions at
\* positions 1..n that are dated from..to.
RECURSIVE DatedSum(_, _, _, _, _)
DatedSum(n, account, currency, from, to) ==
    IF n = 0 THEN 0
    ELSE (IF /\ entries[n].kind = "Transaction"
             /\ entries[n].date >= from
             /\ entries[n].date <= to
          THEN PostingSum(entries[n].postings, 1, account, currency) ELSE 0)
         + DatedSum(n - 1, account, currency, from, to)

\* C14 (as claimed): the balance an evaluated change assertion dated D on an
\* opened account used holds the postings of every transaction of the ledger
\* dated D or earlier, wherever in the input the transactions of day D stand.
C14_AllUpToDateApplied ==
    \A j \in DOMAIN entries :
        EvaluatedOpened(j) =>
            balance_amount =
                Amount(DatedSum(Len(entries), get_account_from_entry(entries[j]),
                                Expected(j).currency, 0, entries[j].date),
                       Expected(j).currency)

\* C14 (amended): the balance an evaluated change assertion dated D used
\* holds the postings of every transaction of the ledger dated before D and,
\* of the transactions dated D, of those that stand before the assertion in
\* the input; the transactions of day D that follow it are not in it.
C14_AppliedInInputOrder ==
    \A j \in DOMAIN entries :
        Evaluated(j) =>
            balance_amount =
                Amount(DatedSum(Len(entries), get_account_from_entry(entries[j]),
                                Expected(j).currency, 0, entries[j].date - 1)
                       + DatedSum(j - 1, get_account_from_entry(entries[j]),
                                  Expected(j).currency,
                                  entries[j].date, entries[j].date),
                       Expected(j).currency)

\* C14's case: a transaction of an earlier day posted to the assertion's
\* subtree, and a transaction of the assertion's day that posts to it stands
\* after the assertion.
C14_Witness ==
    \E j \in DOMAIN entries :
        /\ Evaluated(j)
        /\ balance_amount.number # 0
        /\ \E k \in 1..(j - 1) :
              /\ entries[k].kind = "Transaction"
              /\ entries[k].date < entries[j].date
              /\ PostingSum(entries[k].postings, 1,
                            get_account_from_entry(entries[j]),
                            Expected(j).currency) # 0
        /\ \E k \in (j + 1)..Len(entries) :
              /\ entries[k].kind = "Transaction"
              /\ entries[k].date = entries[j].date
              /\ PostingSum(entries[k].postings, 1,
                            get_account_from_entry(entries[j]),
                            Expected(j).currency) # 0

----------------------------------------------------------------------------
(* C15 *)

\* The errors are in the order of their directives' positions in the input.
InProcessingOrder(errors) ==
    \A m, n \in DOMAIN errors :
        errors[m].entry < errors[n].entry => m < n

\* C15: every step of the call leaves the errors recorded so far where they
\* are, as the leading part of the error list (it only appends), and leaves
\* the list in the order of the directives the errors are about: an error
\* about an earlier directive stands before an error about a later one.
C15_ErrorsInProcessingOrder ==
    [][/\ IsPrefix(check_errors, check_errors')
       /\ InProcessingOrder(check_errors')]_vars

\* C15's case: the call returned errors about two directives: first the
\* currency error and the mismatch of one assertion, then the errors of a
\* later one.
C15_Witness ==
    /\ pc = "returned"
    /\ Len(check_errors) >= 3
    /\ check_errors[1].entry = check_errors[2].entry
    /\ check_errors[2].entry < check_errors[3].entry

----------------------------------------------------------------------------
(* C16 *)

\* One of the orders in which a set can be iterated, the same one whenever
\* it is asked for.
OneOrder(S) == CHOOSE f \in IterationOrders(S) : TRUE

\* C16 (as claimed): the snapshot keys the call built are those that any one
\* iteration order of the two sets gives; so all orders give the same keys.
C16_KeysIndependentOfOrder ==
    pc # "start" =>
        DOMAIN t1_amounts =
            DOMAIN zip_t1_amounts(OneOrder(asserted_accounts(entries)),
                                  t1_dates(entries),
                                  OneOrder(asserted_currencies(entries)))

====
